---- MODULE Spec2Model ----
(***************************************************************************)
(* Model of run() in detection.py: for every frame of the source, three    *)
(* YOLO detectors are invoked (panel, fault, single module), their boxes   *)
(* are collected into lists, the module and panel lists are sorted, every  *)
(* panel is correlated with the modules and faults whose midpoint lies in  *)
(* it, and the annotated layers are written out.                           *)
(*                                                                         *)
(* Coordinates are whole pixels (scale_coords(...).round()), so a midpoint *)
(* (a+b)/2 is compared through its double a+b.  A confidence is an integer *)
(* number of 1/ScoreUnit.  An image buffer is the sequence of the draw     *)
(* operations applied to it.                                               *)
(***************************************************************************)
EXTENDS Integers, Sequences, FiniteSets, TLC

\* ---------------------------------------------------------------- bounds
NFrames == 2        \* frames the source yields
MaxDet == 2         \* detections one detector returns for one frame
ScoreUnit == 100000 \* a confidence p stands for p / ScoreUnit

\* ------------------------------------------------------ program constants
LabelScale == 10000 \* int(prob * 10000)
LabelDiv == 100     \* ... / 100

\* ------------------------------------------------------------ input sets
Modes == {"image", "video", "stream"}
\* two overlapping panels and one apart
PanelBoxes == {<<0, 0, 4, 4>>, <<2, 0, 6, 4>>, <<6, 0, 8, 4>>}
\* midpoints (3,2): inside the first two panels; (4,2): on the right edge
\* of the first panel and inside the second
FaultBoxes == {<<2, 1, 4, 3>>, <<3, 1, 5, 3>>}
\* midpoints (3.5,1.5) and (4,2)
ModuleBoxes == {<<2, 0, 5, 3>>, <<3, 1, 5, 3>>}
FaultScores == {12346, 99999}

VARIABLES
    mode,                       \* dataset.mode
    nosave,                     \* run(nosave=...)
    view_img,                   \* run(view_img=...)
    source_txt,                 \* source.endswith('.txt')
    pc,                         \* control point of run()
    frame,                      \* number of the frame the loop is at
    calls,                      \* detector invocations made for this frame
    det,                        \* what the detectors returned for this frame
    det_others,                 \* what they returned for the other image of the batch
    pred_full_solar_modules,    \* panel boxes
    pred_fault_solar_modules,   \* fault boxes
    prob_fault_solar_modules,   \* fault confidences
    pred_single_solar_modules,  \* module boxes
    im1,                        \* panel layer
    im0,                        \* module layer
    img_detection,              \* anomaly layer
    buf,                        \* the buffer each of these three names is bound to
    heap,                       \* the draw operations each buffer has received
    visits,                     \* one entry per iteration of the panel loop
    persisted,                  \* <<frame, name>> of every artifact written
    written,                    \* the artifacts written for this frame
    failure,                    \* the exception that left run(), if any
    summary                     \* the end-of-run summary was logged

vars == <<mode, nosave, view_img, source_txt, pc, frame, calls, det,
          det_others,
          pred_full_solar_modules, pred_fault_solar_modules,
          prob_fault_solar_modules, pred_single_solar_modules,
          im1, im0, img_detection, buf, heap, visits, persisted, written,
          failure, summary>>

config == <<mode, nosave, view_img, source_txt>>
lists == <<pred_full_solar_modules, pred_fault_solar_modules,
           prob_fault_solar_modules, pred_single_solar_modules>>
layers == <<im1, im0, img_detection, buf, heap>>

\* ------------------------------------------------------------- helpers
Reverse(s) == [i \in 1..Len(s) |-> s[Len(s) + 1 - i]]

Indices(s) == [i \in 1..Len(s) |-> i]

\* the detections of one detector for one image: distinct boxes, any order
DetSeqs(S) ==
    UNION { { q \in [1..n -> S] : \A i, j \in 1..n : i # j => q[i] # q[j] }
            : n \in 0..MaxDet }

FaultDetSeqs ==
    UNION { { q \in [1..n -> FaultBoxes \X FaultScores] :
                \A i, j \in 1..n : i # j => q[i][1] # q[j][1] }
            : n \in 0..MaxDet }

\* Python's order on lists of four floats
BoxLess(a, b) ==
    \/ a[1] < b[1]
    \/ a[1] = b[1] /\ a[2] < b[2]
    \/ a[1] = b[1] /\ a[2] = b[2] /\ a[3] < b[3]
    \/ a[1] = b[1] /\ a[2] = b[2] /\ a[3] = b[3] /\ a[4] < b[4]

RECURSIVE InsertBox(_, _)
InsertBox(b, s) ==
    IF s = <<>> THEN <<b>>
    ELSE IF BoxLess(b, Head(s)) THEN <<b>> \o s
    ELSE <<Head(s)>> \o InsertBox(b, Tail(s))

RECURSIVE SortBoxes(_)
SortBoxes(s) ==
    IF s = <<>> THEN <<>>
    ELSE InsertBox(s[Len(s)], SortBoxes(SubSeq(s, 1, Len(s) - 1)))

ListSortNone(s) == s

\* list.sort()
ListSort(s) == SortBoxes(s)

ContainsMidInclusive(P, d) ==
    /\ d[1] + d[3] >= 2 * P[1]
    /\ d[1] + d[3] <= 2 * P[3]
    /\ d[2] + d[4] >= 2 * P[2]
    /\ d[2] + d[4] <= 2 * P[4]

\* mid_point_x > P[0] and mid_point_x < P[2] and mid_point_y > P[1] and
\* mid_point_y < P[3], with mid_point = ((d[0]+d[2])/2, (d[1]+d[3])/2)
ContainsMid(P, d) ==
    /\ d[1] + d[3] > 2 * P[1]
    /\ d[1] + d[3] < 2 * P[3]
    /\ d[2] + d[4] > 2 * P[2]
    /\ d[2] + d[4] < 2 * P[4]

\* a label <<w, h>> reads w.h percent, h being hundredths
LabelTextRounded(p) ==
    LET n == (2 * p * LabelScale + ScoreUnit) \div (2 * ScoreUnit)
    IN  <<n \div LabelDiv, n % LabelDiv>>

\* str(int(prob * 10000) / 100) + "%"
LabelText(p) ==
    LET n == (p * LabelScale) \div ScoreUnit
    IN  <<n \div LabelDiv, n % LabelDiv>>

NoText == <<>>

Draw(o, r, b, i, t) == [op |-> o, role |-> r, box |-> b, im |-> i, txt |-> t]

AnnotatorLayerFirstOnly(boxes, role, enabled) ==
    IF enabled /\ boxes # <<>> THEN <<Draw("box_label", role, boxes[1], 0, NoText)>>
    ELSE <<>>

\* annotator.box_label(xyxy, ...) for every detection of the image
AnnotatorLayer(boxes, role, enabled) ==
    IF enabled
    THEN [k \in 1..Len(boxes) |-> Draw("box_label", role, boxes[k], 0, NoText)]
    ELSE <<>>

\* the module loop of panel im; mbreak is the module at which the key 's'
\* was read (0: never)
ModuleOps(P, im, singles, mbreak) ==
    LET hits == SelectSeq(Indices(singles),
                    LAMBDA m : /\ ContainsMid(P, singles[m])
                               /\ (mbreak = 0 \/ m <= mbreak))
    IN  [k \in 1..Len(hits) |-> Draw("rectangle", "module", singles[hits[k]], im, NoText)]

FaultOpsFirstOnly(P, im, faults, probs) ==
    LET hits == SelectSeq(Indices(faults), LAMBDA ml : ContainsMid(P, faults[ml]))
    IN  IF hits = <<>> THEN <<>>
        ELSE << Draw("fill", "panel", P, im, NoText),
                Draw("rectangle", "fault", faults[hits[1]], im, NoText),
                Draw("putText", "fault", faults[hits[1]], im, LabelText(probs[hits[1]])) >>

FaultOpsUntested(P, im, faults, probs) ==
    LET hits == Indices(faults)
    IN  [k \in 1..3 * Len(hits) |->
            LET ml == hits[(k + 2) \div 3]
            IN  CASE k % 3 = 1 -> Draw("fill", "panel", P, im, NoText)
                  [] k % 3 = 2 -> Draw("rectangle", "fault", faults[ml], im, NoText)
                  [] OTHER     -> Draw("putText", "fault", faults[ml], im,
                                       LabelText(probs[ml]))]

\* the fault loop of panel im: for every contained fault the panel is
\* filled, the fault box drawn and its confidence written
FaultOps(P, im, faults, probs) ==
    LET hits == SelectSeq(Indices(faults), LAMBDA ml : ContainsMid(P, faults[ml]))
    IN  [k \in 1..3 * Len(hits) |->
            LET ml == hits[(k + 2) \div 3]
            IN  CASE k % 3 = 1 -> Draw("fill", "panel", P, im, NoText)
                  [] k % 3 = 2 -> Draw("rectangle", "fault", faults[ml], im, NoText)
                  [] OTHER     -> Draw("putText", "fault", faults[ml], im,
                                       LabelText(probs[ml]))]

FaultBoxListSorted(d) == ListSort(Reverse([k \in 1..Len(d) |-> d[k][1]]))

\* for *xyxy, conf, cls in reversed(det): the boxes appended, one by one
FaultBoxList(d) == Reverse([k \in 1..Len(d) |-> d[k][1]])

\* ... and the confidences appended beside them
FaultProbList(d) == Reverse([k \in 1..Len(d) |-> d[k][2]])

\* dataset = LoadStreams(source); bs = len(dataset): a list of streams is
\* read as one batch of several images, anything else one image at a time
batch == mode = "stream" /\ source_txt

NoOthers == [panel |-> <<>>, fault |-> <<>>]

\* the detections of one detector for the other image of a batch
OtherSeqs(S) == IF batch THEN {<<>>} \cup { <<x>> : x \in S } ELSE {<<>>}

\* the image whose annotated copy the name im0 keeps after the loop
LastImage(d, o) == IF batch THEN o ELSE d

save_img == ~nosave /\ ~source_txt

\* if save_img or save_crop or view_img (save_crop left at its default)
drawBoxes == save_img \/ view_img

SaveTargetsModuleOnly(m) ==
    IF m = "image" THEN {"_panel_block_detection"} ELSE {"vid_writer"}

\* the artifacts one frame is written to
SaveTargets(m) ==
    IF m = "image"
    THEN {"_panel_detection", "_panel_block_detection", "_anomaly_detection"}
    ELSE {"vid_writer"}

LayerOf(name) ==
    CASE name = "_panel_detection" -> im1
      [] name = "_anomaly_detection" -> img_detection
      [] OTHER -> im0

LoopExitOnModuleKey(v, n) ==
    \/ Len(v) >= n
    \/ Len(v) > 0 /\ (v[Len(v)].skey \/ v[Len(v)].mbreak # 0)

\* the panel loop is over: range exhausted, or 's' read at the end of a panel
LoopExit(v, n) ==
    \/ Len(v) >= n
    \/ Len(v) > 0 /\ v[Len(v)].skey

AfterDetectorFailureContinue == "fetch"

\* no try/except around the detector calls: the exception leaves run()
AfterDetectorFailure == "raised"

NoFailure == [stage |-> "none", frame |-> 0]

\* ------------------------------------------------------------- buffers
\* the frame the loader yields, the copies made of it for the three
\* annotators, the image read again from path and its copy
Buffers == {"none", "im0s", "copy132", "copy202", "copy266",
            "imread311", "copy311"}

Unbound == [im1 |-> "none", im0 |-> "none", img_detection |-> "none"]

Blank == [b \in Buffers |-> <<>>]

CopyShared(src, fresh) == src

\* ndarray.copy(): a new buffer
Copy(src, fresh) == fresh

\* the names im1, im0 and img_detection show what their buffers hold
Bind(h, b) ==
    /\ heap' = h
    /\ buf' = b
    /\ im1' = h[b.im1]
    /\ im0' = h[b.im0]
    /\ img_detection' = h[b.img_detection]

\* ---------------------------------------------------------------- Init
Init ==
    /\ mode \in Modes
    /\ nosave \in BOOLEAN
    /\ view_img \in BOOLEAN
    /\ source_txt \in BOOLEAN
    /\ source_txt => mode = "stream"
    /\ pc = "fetch"
    /\ frame = 0
    /\ calls = <<>>
    /\ det = [panel |-> <<>>, fault |-> <<>>, module |-> <<>>]
    /\ det_others = NoOthers
    /\ pred_full_solar_modules = <<>>
    /\ pred_fault_solar_modules = <<>>
    /\ prob_fault_solar_modules = <<>>
    /\ pred_single_solar_modules = <<>>
    /\ im1 = <<>>
    /\ im0 = <<>>
    /\ img_detection = <<>>
    /\ buf = Unbound
    /\ heap = Blank
    /\ visits = <<>>
    /\ persisted = {}
    /\ written = {}
    /\ failure = NoFailure
    /\ summary = FALSE

\* ------------------------------------------------------------- actions
\* for path, im, im0s, vid_cap, s in dataset: the next frame.  The buffers
\* of the previous frame are dead (rebound before they are read again).
NextFrame ==
    /\ pc = "fetch"
    /\ frame < NFrames
    /\ frame' = frame + 1
    /\ pc' = "panel"
    /\ calls' = <<>>
    /\ det' = [panel |-> <<>>, fault |-> <<>>, module |-> <<>>]
    /\ det_others' = NoOthers
    /\ Bind(Blank, Unbound)
    /\ visits' = <<>>
    /\ written' = {}
    /\ UNCHANGED <<config, lists, persisted, failure, summary>>

\* pred = model(im); for i, det in enumerate(pred): the panel boxes of
\* every image of the batch are appended to the one list, and drawn on a
\* copy of that image; im1 names the copy of the last image
PanelInference ==
    /\ pc = "panel"
    /\ \E d \in DetSeqs(PanelBoxes), o \in OtherSeqs(PanelBoxes) :
        LET b == Copy("im0s", "copy132")
        IN  /\ det' = [det EXCEPT !.panel = d]
            /\ det_others' = [det_others EXCEPT !.panel = o]
            /\ pred_full_solar_modules' = Reverse(d) \o Reverse(o)
            /\ Bind([heap EXCEPT ![b] = heap["im0s"] \o
                        AnnotatorLayer(Reverse(LastImage(d, o)), "panel",
                                       drawBoxes)],
                    [buf EXCEPT !.im0 = b, !.im1 = b])
    /\ calls' = Append(calls, "panel")
    /\ pc' = "fault"
    /\ UNCHANGED <<config, frame, pred_fault_solar_modules,
                   prob_fault_solar_modules, pred_single_solar_modules,
                   visits, persisted, written, failure, summary>>

\* pred = model_fault(im); for i, det in enumerate(pred): the fault boxes
\* and confidences of every image of the batch are appended to the one
\* pair of lists, and drawn on a second copy of that image
FaultInference ==
    /\ pc = "fault"
    /\ \E d \in FaultDetSeqs, o \in OtherSeqs(FaultBoxes \X FaultScores) :
        LET b == Copy("im0s", "copy202")
        IN  /\ det' = [det EXCEPT !.fault = d]
            /\ det_others' = [det_others EXCEPT !.fault = o]
            /\ pred_fault_solar_modules' = FaultBoxList(d) \o FaultBoxList(o)
            /\ prob_fault_solar_modules' = FaultProbList(d) \o FaultProbList(o)
            /\ Bind([heap EXCEPT ![b] = heap["im0s"] \o
                        AnnotatorLayer(FaultBoxList(LastImage(d, o)), "fault",
                                       drawBoxes)],
                    [buf EXCEPT !.im0 = b])
    /\ calls' = Append(calls, "fault")
    /\ pc' = "module"
    /\ UNCHANGED <<config, frame, pred_full_solar_modules,
                   pred_single_solar_modules,
                   visits, persisted, written, failure, summary>>

\* pred = model_single(im), first time: the result is overwritten
ModuleInferenceDiscarded ==
    /\ pc = "module"
    /\ calls' = Append(calls, "module")
    /\ pc' = "module2"
    /\ UNCHANGED <<config, frame, det, det_others, lists, layers,
                   visits, persisted, written, failure, summary>>

\* pred = model_single(im), second time; for i, det in enumerate(pred):
\* the module boxes of the first image are collected and drawn on a third
\* copy of it, which im0 names, then the module and panel lists are
\* sorted: the rest of the frame's processing is inside this iteration
ModuleInference ==
    /\ pc = "module2"
    /\ \E d \in DetSeqs(ModuleBoxes) :
        LET b == Copy("im0s", "copy266")
        IN  /\ det' = [det EXCEPT !.module = d]
            /\ pred_single_solar_modules' = ListSort(Reverse(d))
            /\ Bind([heap EXCEPT ![b] = heap["im0s"] \o
                        AnnotatorLayer(Reverse(d), "module", drawBoxes)],
                    [buf EXCEPT !.im0 = b])
    /\ pred_full_solar_modules' = ListSort(pred_full_solar_modules)
    /\ calls' = Append(calls, "module")
    /\ pc' = "imread"
    /\ UNCHANGED <<config, frame, det_others, pred_fault_solar_modules,
                   prob_fault_solar_modules, visits,
                   persisted, written, failure, summary>>

\* a detector call raises
DetectorFailure ==
    /\ pc \in {"panel", "fault", "module", "module2"}
    /\ failure' = [stage |-> IF pc = "module2" THEN "module" ELSE pc,
                   frame |-> frame]
    /\ pc' = AfterDetectorFailure
    /\ UNCHANGED <<config, frame, calls, det, det_others, lists, layers,
                   visits, persisted, written, summary>>

\* img_detection = cv2.imread(path).copy(): path is the image file, the
\* video file (imread gives None unless the build decodes its container)
\* or the list of stream sources (imread raises)
ReadAnomalyBase ==
    /\ pc = "imread"
    /\ \E ok \in BOOLEAN :
        /\ mode = "image" => ok
        /\ mode = "stream" => ~ok
        /\ IF ok
           THEN LET b == Copy("imread311", "copy311")
                IN  /\ pc' = "pass"
                    /\ failure' = failure
                    /\ Bind([heap EXCEPT ![b] = heap["imread311"]],
                            [buf EXCEPT !.img_detection = b])
           ELSE /\ pc' = "raised"
                /\ failure' = [stage |-> "imread", frame |-> frame]
                /\ UNCHANGED layers
    /\ visits' = <<>>
    /\ UNCHANGED <<config, frame, calls, det, det_others, lists, persisted,
                   written, summary>>

\* one iteration of for im in range(len(pred_full_solar_modules)): img is
\* read anew, temp and temp2 both name it, the fault draws go to it and
\* to the buffer of img_detection
PanelStep ==
    /\ pc = "pass"
    /\ ~LoopExit(visits, Len(pred_full_solar_modules))
    /\ \E mbreak \in 0..Len(pred_single_solar_modules), skey \in BOOLEAN :
        LET im == Len(visits) + 1
            P == pred_full_solar_modules[im]
            mods == ModuleOps(P, im, pred_single_solar_modules, mbreak)
            flts == FaultOps(P, im, pred_fault_solar_modules,
                             prob_fault_solar_modules)
        IN  /\ mbreak # 0 => ContainsMid(P, pred_single_solar_modules[mbreak])
            /\ visits' = Append(visits,
                   [panel |-> P, mbreak |-> mbreak, skey |-> skey,
                    img |-> <<Draw("rectangle", "panel", P, im, NoText)>>
                            \o mods \o flts])
            /\ Bind([heap EXCEPT ![buf.img_detection] = @ \o flts], buf)
    /\ UNCHANGED <<config, pc, frame, calls, det, det_others, lists,
                   persisted, written, failure, summary>>

\* if save_img: ... ; LOGGER.info(...) ends the frame
SaveResults ==
    /\ pc = "pass"
    /\ LoopExit(visits, Len(pred_full_solar_modules))
    /\ IF save_img
       THEN /\ written' = { [name |-> n, layer |-> LayerOf(n)] :
                            n \in SaveTargets(mode) }
            /\ persisted' = persisted \cup
                            { <<frame, n>> : n \in SaveTargets(mode) }
       ELSE UNCHANGED <<written, persisted>>
    /\ pc' = "fetch"
    /\ UNCHANGED <<config, frame, calls, det, det_others, lists, layers,
                   visits, failure, summary>>

\* the dataset is exhausted: the speed and result lines are logged
EndOfRun ==
    /\ pc = "fetch"
    /\ frame = NFrames
    /\ summary' = TRUE
    /\ pc' = "done"
    /\ UNCHANGED <<config, frame, calls, det, det_others, lists, layers,
                   visits, persisted, written, failure>>

Next ==
    \/ NextFrame
    \/ PanelInference
    \/ FaultInference
    \/ ModuleInferenceDiscarded
    \/ ModuleInference
    \/ DetectorFailure
    \/ ReadAnomalyBase
    \/ PanelStep
    \/ SaveResults
    \/ EndOfRun

Spec == Init /\ [][Next]_vars

\* ------------------------------------------- the label of every confidence
\* the pass of the last frame of an image source, over one panel and one
\* fault inside it, for every confidence the detector can report
LabelInit ==
    /\ mode = "image"
    /\ nosave = FALSE
    /\ view_img = FALSE
    /\ source_txt = FALSE
    /\ pc = "pass"
    /\ frame = NFrames
    /\ calls = <<"panel", "fault", "module", "module">>
    /\ \E p \in 0..ScoreUnit :
        /\ det = [panel |-> << <<0, 0, 4, 4>> >>,
                  fault |-> << << <<2, 1, 4, 3>>, p >> >>,
                  module |-> <<>>]
        /\ prob_fault_solar_modules = <<p>>
    /\ det_others = NoOthers
    /\ pred_full_solar_modules = << <<0, 0, 4, 4>> >>
    /\ pred_fault_solar_modules = << <<2, 1, 4, 3>> >>
    /\ pred_single_solar_modules = <<>>
    /\ im1 = AnnotatorLayer(pred_full_solar_modules, "panel", TRUE)
    /\ im0 = <<>>
    /\ img_detection = <<>>
    /\ buf = [im1 |-> "copy132", im0 |-> "copy266", img_detection |-> "copy311"]
    /\ heap = [Blank EXCEPT
                 !["copy132"] = im1,
                 !["copy202"] = AnnotatorLayer(pred_fault_solar_modules, "fault", TRUE)]
    /\ visits = <<>>
    /\ persisted = (1..(NFrames - 1)) \X SaveTargets("image")
    /\ written = {}
    /\ failure = NoFailure
    /\ summary = FALSE

LabelNext == PanelStep \/ SaveResults \/ EndOfRun

LabelSpec == LabelInit /\ [][LabelNext]_vars

\* ----------------------------------------------------------- properties
Range(s) == { s[i] : i \in 1..Len(s) }

\* every draw operation of the panel loop, on the display buffers and on
\* the anomaly layer
PassOps == Range(img_detection) \cup UNION { Range(visits[i].img) : i \in 1..Len(visits) }

\* the midpoint of box d lies strictly inside box P
MidStrictlyInside(P, d) ==
    /\ 2 * P[1] < d[1] + d[3]
    /\ d[1] + d[3] < 2 * P[3]
    /\ 2 * P[2] < d[2] + d[4]
    /\ d[2] + d[4] < 2 * P[4]

\* the midpoint of box d lies on the right edge of box P
MidOnRightEdge(P, d) ==
    /\ d[1] + d[3] = 2 * P[3]
    /\ 2 * P[2] < d[2] + d[4]
    /\ d[2] + d[4] < 2 * P[4]

LexLeq(a, b) ==
    \/ a = b
    \/ \E k \in 1..4 : a[k] < b[k] /\ \A j \in 1..(k - 1) : a[j] = b[j]

IsSorted(s) == \A i, j \in 1..Len(s) : i < j => LexLeq(s[i], s[j])

FrameFinished == pc = "fetch" /\ frame >= 1

\* the frame's artifact of that name, if it was written
WrittenAs(n) == { w \in written : w.name = n }

\* C1 as stated: a module or fault is drawn for at most one panel
C1_AtMostOnePanel ==
    \A o1, o2 \in PassOps :
        (/\ o1.role \in {"module", "fault"}
         /\ o1.op = "rectangle"
         /\ o2.op = "rectangle"
         /\ o1.role = o2.role
         /\ o1.box = o2.box) => o1.im = o2.im

\* C1 amended: a fault is drawn on the anomaly layer for every visited
\* panel whose box strictly contains its midpoint, and for no other; a
\* module is drawn on the display buffer of every visited panel whose box
\* strictly contains its midpoint, up to the module at which 's' was read
C1_DrawnForEveryContainingPanel ==
    \A i \in 1..Len(visits) :
        /\ \A ml \in 1..Len(pred_fault_solar_modules) :
            MidStrictlyInside(visits[i].panel, pred_fault_solar_modules[ml])
            <=> (\E o \in Range(img_detection) :
                    /\ o.op = "rectangle" /\ o.role = "fault" /\ o.im = i
                    /\ o.box = pred_fault_solar_modules[ml])
        /\ \A m \in 1..Len(pred_single_solar_modules) :
            (/\ MidStrictlyInside(visits[i].panel, pred_single_solar_modules[m])
             /\ (visits[i].mbreak = 0 \/ m <= visits[i].mbreak))
            <=> (\E o \in Range(visits[i].img) :
                    /\ o.op = "rectangle" /\ o.role = "module" /\ o.im = i
                    /\ o.box = pred_single_solar_modules[m])

\* a fault was drawn on the anomaly layer for two panels
C1_Witness ==
    /\ FrameFinished
    /\ \E o1, o2 \in Range(img_detection) :
        /\ o1.op = "rectangle" /\ o1.role = "fault"
        /\ o2.op = "rectangle" /\ o2.role = "fault"
        /\ o1.box = o2.box
        /\ o1.im # o2.im

\* C2: a module or fault is drawn for a panel only if its midpoint lies
\* strictly inside the panel's box; a midpoint on an edge is not inside
C2_BoundaryExclusive ==
    \A o \in PassOps :
        o.role \in {"module", "fault"} =>
            /\ o.im \in 1..Len(visits)
            /\ MidStrictlyInside(visits[o.im].panel, o.box)

\* a panel was visited while a fault of the frame had its midpoint on the
\* panel's right edge, and the fault was not drawn for that panel
C2_Witness ==
    /\ FrameFinished
    /\ \E i \in 1..Len(visits), ml \in 1..Len(pred_fault_solar_modules) :
        /\ MidOnRightEdge(visits[i].panel, pred_fault_solar_modules[ml])
        /\ \A o \in PassOps :
            o.box = pred_fault_solar_modules[ml] /\ o.role = "fault" => o.im # i

\* C3 as stated: the three lists are sorted when correlation starts
C3_AllListsSorted ==
    pc = "pass" =>
        /\ IsSorted(pred_full_solar_modules)
        /\ IsSorted(pred_single_solar_modules)
        /\ IsSorted(pred_fault_solar_modules)

\* C3 amended: when correlation starts the panel list and the module list
\* hold the detectors' boxes in ascending lexicographic order, whatever
\* the order of emission; the fault list is the detector's output in
\* reverse order of emission
C3_PanelsAndModulesSorted ==
    pc = "pass" =>
        /\ IsSorted(pred_full_solar_modules)
        /\ IsSorted(pred_single_solar_modules)
        /\ Len(pred_full_solar_modules) = Len(det.panel)
        /\ Range(pred_full_solar_modules) = Range(det.panel)
        /\ Len(pred_single_solar_modules) = Len(det.module)
        /\ Range(pred_single_solar_modules) = Range(det.module)
        /\ Len(pred_fault_solar_modules) = Len(det.fault)
        /\ \A k \in 1..Len(det.fault) :
            pred_fault_solar_modules[k] = det.fault[Len(det.fault) + 1 - k][1]

\* correlation starts on panels the detector emitted out of order, on
\* modules whose collected order was not ascending, and on unsorted faults
C3_Witness ==
    /\ pc = "pass"
    /\ visits = <<>>
    /\ Len(det.panel) >= 2
    /\ ~IsSorted(det.panel)
    /\ Len(det.module) >= 2
    /\ ~IsSorted(Reverse(det.module))
    /\ ~IsSorted(pred_fault_solar_modules)

\* C4 as stated: a module box is on the persisted module layer only if its
\* midpoint lies strictly inside some panel box of the frame
C4_OnlyContainedModulesOnLayer ==
    \A w \in WrittenAs("_panel_block_detection") :
        \A o \in Range(w.layer) :
            \E i \in 1..Len(pred_full_solar_modules) :
                MidStrictlyInside(pred_full_solar_modules[i], o.box)

\* C4 amended: the persisted module layer carries one box for every module
\* detection of the frame, contained by a panel or not, in reverse order
\* of emission
C4_EveryModuleOnLayer ==
    \A w \in WrittenAs("_panel_block_detection") :
        /\ Len(w.layer) = Len(det.module)
        /\ \A k \in 1..Len(w.layer) :
            /\ w.layer[k].op = "box_label"
            /\ w.layer[k].role = "module"
            /\ w.layer[k].box = det.module[Len(det.module) + 1 - k]

\* the module layer was persisted with the box of a module that no panel
\* of the frame contains, next to one that a panel contains
C4_Witness ==
    \E w \in WrittenAs("_panel_block_detection") :
        /\ \E o \in Range(w.layer) :
            \A i \in 1..Len(pred_full_solar_modules) :
                ~MidStrictlyInside(pred_full_solar_modules[i], o.box)
        /\ \E o \in Range(w.layer) :
            \E i \in 1..Len(pred_full_solar_modules) :
                MidStrictlyInside(pred_full_solar_modules[i], o.box)

\* the panel boxes the anomaly layer has filled, the fault boxes it shows
FilledOn(layer) == { o.box : o \in { x \in Range(layer) : x.op = "fill" } }
FaultsOn(layer) ==
    { o.box : o \in { x \in Range(layer) : x.op = "rectangle" /\ x.role = "fault" } }

\* C5 as stated: on the persisted anomaly layer a panel is filled iff a
\* fault midpoint lies strictly inside it, a fault box is drawn iff its
\* midpoint lies strictly inside some panel
C5_AnomalyLayerIff ==
    \A w \in WrittenAs("_anomaly_detection") :
        /\ \A i \in 1..Len(pred_full_solar_modules) :
            pred_full_solar_modules[i] \in FilledOn(w.layer)
            <=> \E ml \in 1..Len(pred_fault_solar_modules) :
                    MidStrictlyInside(pred_full_solar_modules[i],
                                      pred_fault_solar_modules[ml])
        /\ \A ml \in 1..Len(pred_fault_solar_modules) :
            pred_fault_solar_modules[ml] \in FaultsOn(w.layer)
            <=> \E i \in 1..Len(pred_full_solar_modules) :
                    MidStrictlyInside(pred_full_solar_modules[i],
                                      pred_fault_solar_modules[ml])

\* C5 amended: the same, over the panels the pass visited before the key
\* 's' ended it; nothing else is drawn on the anomaly layer
C5_AnomalyLayerIffVisited ==
    \A w \in WrittenAs("_anomaly_detection") :
        /\ \A i \in 1..Len(pred_full_solar_modules) :
            pred_full_solar_modules[i] \in FilledOn(w.layer)
            <=> /\ i <= Len(visits)
                /\ \E ml \in 1..Len(pred_fault_solar_modules) :
                    MidStrictlyInside(pred_full_solar_modules[i],
                                      pred_fault_solar_modules[ml])
        /\ \A ml \in 1..Len(pred_fault_solar_modules) :
            pred_fault_solar_modules[ml] \in FaultsOn(w.layer)
            <=> \E i \in 1..Len(visits) :
                    MidStrictlyInside(pred_full_solar_modules[i],
                                      pred_fault_solar_modules[ml])
        /\ FilledOn(w.layer) \subseteq Range(pred_full_solar_modules)
        /\ \A o \in Range(w.layer) :
            /\ o.op \in {"fill", "rectangle", "putText"}
            /\ o.op # "fill" => o.box \in FaultsOn(w.layer)

\* the anomaly layer was persisted with one panel filled and its fault
\* drawn, a visited panel left undrawn and a fault of no panel left out
C5_Witness ==
    \E w \in WrittenAs("_anomaly_detection") :
        /\ FilledOn(w.layer) # {}
        /\ \E i \in 1..Len(visits) :
            pred_full_solar_modules[i] \notin FilledOn(w.layer)
        /\ \E ml \in 1..Len(pred_fault_solar_modules) :
            pred_fault_solar_modules[ml] \notin FaultsOn(w.layer)
        /\ Len(visits) = Len(pred_full_solar_modules)

\* the confidence of the fault a label was written for
ProbOf(box) ==
    LET ml == CHOOSE k \in 1..Len(pred_fault_solar_modules) :
                  pred_fault_solar_modules[k] = box
    IN  prob_fault_solar_modules[ml]

\* hundredths of a percent a label reads
Hundredths(txt) == txt[1] * LabelDiv + txt[2]

Labels == { o \in Range(img_detection) : o.op = "putText" }

\* C6 as stated: the label is the percentage rounded to the nearest
\* hundredth
C6_LabelRounded ==
    \A o \in Labels :
        LET n == Hundredths(o.txt)
            p == ProbOf(o.box)
        IN  /\ 2 * (n * ScoreUnit - p * LabelScale) <= ScoreUnit
            /\ 2 * (p * LabelScale - n * ScoreUnit) <= ScoreUnit

\* C6 amended: the label is the percentage truncated to hundredths, the
\* largest n / 100 with n / 100 <= 100 * s
C6_LabelTruncated ==
    \A o \in Labels :
        LET n == Hundredths(o.txt)
            p == ProbOf(o.box)
        IN  /\ o.txt[2] \in 0..(LabelDiv - 1)
            /\ n * ScoreUnit <= p * LabelScale
            /\ p * LabelScale < (n + 1) * ScoreUnit

\* a label was written for a confidence whose nearest hundredth is the
\* next one up
C6_Witness ==
    \E o \in Labels :
        2 * (ProbOf(o.box) * LabelScale - Hundredths(o.txt) * ScoreUnit) > ScoreUnit

\* C7: per frame the detectors run once each in the order panel, fault,
\* module, all before the correlation pass, and the pass is over before
\* a layer is persisted
C7_DetectorsOnceInOrder ==
    /\ pc \in {"imread", "pass"} => calls = <<"panel", "fault", "module">>
    /\ visits # <<>> => Len(calls) >= 3
    /\ written # {} => LoopExit(visits, Len(pred_full_solar_modules))

\* C8 as stated: the pass visits every panel detection of the frame
C8_EveryPanelVisited ==
    FrameFinished =>
        /\ Len(visits) = Len(pred_full_solar_modules)
        /\ \A i \in 1..Len(visits) : visits[i].panel = pred_full_solar_modules[i]

\* C8 amended: the pass visits the panels once each in sorted order, from
\* the first on, and stops short of the last only when the key 's' is
\* read at the end of a panel; the key read in the module loop and a
\* panel without modules or faults skip no panel
C8_VisitedUntilKey ==
    /\ Len(visits) <= Len(pred_full_solar_modules)
    /\ \A i \in 1..Len(visits) : visits[i].panel = pred_full_solar_modules[i]
    /\ \A i \in 1..(Len(visits) - 1) : ~visits[i].skey
    /\ FrameFinished =>
        \/ Len(visits) = Len(pred_full_solar_modules)
        \/ visits[Len(visits)].skey

\* a pass ended by the key before its last panel
C8_Witness ==
    /\ FrameFinished
    /\ 0 < Len(visits)
    /\ Len(visits) < Len(pred_full_solar_modules)

\* a pass went through all its panels though the first drew nothing but
\* itself and the module loop of a panel was left on the key
C8_WitnessAll ==
    /\ FrameFinished
    /\ Len(visits) = Len(pred_full_solar_modules)
    /\ Len(visits) >= 2
    /\ Len(visits[1].img) = 1
    /\ \E i \in 1..Len(visits) : visits[i].mbreak # 0

Layers == {"_panel_detection", "_panel_block_detection", "_anomaly_detection"}

NamesOf(f) == { n \in Layers \cup {"vid_writer"} : <<f, n>> \in persisted }

DetectorStages == {"panel", "fault", "module"}

\* C10 as stated: a detector failure aborts its frame only, the run goes
\* on; so a failed detector call never ends the run
C10_FailureAbortsFrameOnly ==
    failure.stage \in DetectorStages => pc # "raised"

\* C10 amended: a detector failure while processing frame k ends the run:
\* the exception leaves run(), nothing is persisted for frame k, no later
\* frame is fetched and the end-of-run summary is not logged
C10_FailureEndsRun ==
    /\ failure.stage \in DetectorStages =>
        /\ pc = "raised"
        /\ failure.frame = frame
        /\ NamesOf(frame) = {}
        /\ written = {}
        /\ ~summary
    /\ pc \in {"panel", "fault", "module", "module2", "imread", "pass", "fetch", "done"}
        => failure = NoFailure

\* the fault detector failed on a frame that is not the last: frames of
\* the source are left unprocessed
C10_Witness ==
    /\ failure.stage = "fault"
    /\ pc = "raised"
    /\ frame < NFrames

\* positions on the anomaly layer of the fills of panel i, and of the
\* boxes and labels of the faults drawn for panel i
FillsOf(i) ==
    { k \in 1..Len(img_detection) :
        img_detection[k].op = "fill" /\ img_detection[k].im = i }
FaultDrawsOf(i) ==
    { k \in 1..Len(img_detection) :
        img_detection[k].role = "fault" /\ img_detection[k].im = i }

\* C12: on the anomaly layer a panel with a contained fault is filled
\* exactly once, and the fill precedes the box and the label of every
\* fault drawn for that panel, so that no fill covers a fault of its panel
C12_FillOnceBeforeFaults ==
    \A i \in 1..Len(visits) :
        /\ FaultDrawsOf(i) # {} => Cardinality(FillsOf(i)) = 1
        /\ \A f \in FillsOf(i), k \in FaultDrawsOf(i) : f < k

\* the lists hold the detections of the frame's detectors
ListsBuilt == pc \in {"module", "module2", "imread", "pass"} \/ FrameFinished

\* C14: the confidence at an index of prob_fault_solar_modules is the one
\* the detector reported for the box at that index of
\* pred_fault_solar_modules, and the label written next to a fault box is
\* the label of that fault's own confidence
C14_BoxAndScorePaired ==
    /\ ListsBuilt =>
        /\ Len(prob_fault_solar_modules) = Len(pred_fault_solar_modules)
        /\ \A ml \in 1..Len(pred_fault_solar_modules) :
            <<pred_fault_solar_modules[ml], prob_fault_solar_modules[ml]>>
                \in Range(det.fault) \cup Range(det_others.fault)
    /\ \A o \in Labels :
        \E d \in Range(det.fault) :
            /\ d[1] = o.box
            /\ Hundredths(o.txt) * ScoreUnit <= d[2] * LabelScale
            /\ d[2] * LabelScale < (Hundredths(o.txt) + 1) * ScoreUnit

\* two faults of different confidence were labelled for one panel, held
\* in a list whose order is not the sorted order of their boxes
C14_Witness ==
    /\ FrameFinished
    /\ ~IsSorted(pred_fault_solar_modules)
    /\ \E o1, o2 \in Labels :
        /\ o1.im = o2.im
        /\ o1.box # o2.box
        /\ o1.txt # o2.txt

\* the three layers of the frame are bound
LayersBound == pc = "pass" \/ FrameFinished

\* what may be drawn on the layer of a name
PanelDraws == { o \in Range(im1) \cup Range(im0) \cup Range(img_detection) :
                  o.op = "box_label" /\ o.role = "panel" }
ModuleDraws == { o \in Range(im1) \cup Range(im0) \cup Range(img_detection) :
                   o.op = "box_label" /\ o.role = "module" }
PassDraws == { o \in Range(im1) \cup Range(im0) \cup Range(img_detection) :
                 o.op \in {"fill", "rectangle", "putText"} }

\* C11: the panel, module and anomaly layers are three distinct buffers,
\* none of them the source frame; the draws of one layer are on that
\* layer alone: panel boxes on im1 only, module boxes on im0 only, fills,
\* fault boxes and labels on img_detection only, and the source frame and
\* the persisted images carry nothing else
C11_LayersIndependent ==
    /\ LayersBound =>
        /\ Cardinality({buf.im1, buf.im0, buf.img_detection, "im0s"}) = 4
        /\ heap["im0s"] = <<>>
        /\ Range(im1) \subseteq PanelDraws
        /\ Range(im0) \subseteq ModuleDraws
        /\ Range(img_detection) \subseteq PassDraws
        /\ im1 = heap[buf.im1]
        /\ im0 = heap[buf.im0]
        /\ img_detection = heap[buf.img_detection]
    /\ \A w \in written :
        Range(w.layer) \subseteq
            CASE w.name = "_panel_detection" -> PanelDraws
              [] w.name = "_anomaly_detection" -> PassDraws
              [] OTHER -> ModuleDraws

\* the three layers of a frame were persisted, each with draws of its own
C11_Witness ==
    /\ FrameFinished
    /\ Cardinality(written) = 3
    /\ PanelDraws # {}
    /\ ModuleDraws # {}
    /\ Cardinality(PassDraws) >= 3

\* the lists are complete and sorted: the correlation of the image starts
CorrelationStarted == pc \in {"imread", "pass"}

====
